---- MODULE Spec2Model ----
(***************************************************************************)
(* Employee Task Manager back end: the task and employee controllers, the  *)
(* Task and Employee schemas and their pre-save hooks, over a MongoDB      *)
(* store modelled as three collections (users, employees, tasks).          *)
(***************************************************************************)
EXTENDS Integers, Sequences, FiniteSets, TLC

VARIABLES users, employees, tasks, nextUserId, nextTaskId, idLog, reqs, res

vars == <<users, employees, tasks, nextUserId, nextTaskId, idLog, reqs, res>>

(* ------------------------------ bounds --------------------------------- *)
\* ObjectIds the store hands out to User documents (1..MaxUsers; never reused).
MaxUsers == 3
\* ObjectIds the store hands out to Task documents (1..MaxTasks; never reused).
MaxTasks == 2
\* createEmployee / deleteEmployee requests that may be in flight together.
MaxReq == 2
\* Cap on Employee.tasksCompleted (an unbounded Number in the code).
MaxCompleted == 2
\* Cap on the length of a task's comment list.
MaxComments == 3
\* Tasks in the collection when statistics are taken over a stored collection.
MaxStatTasks == 7

(* --------------------------- value domains ----------------------------- *)
\* The administrator account present before any request (created through the
\* authentication routes, which are outside these controllers).
AdminId == 0
\* A string that cannot be cast to an ObjectId (e.g. "abc").
BadId == -1
\* An absent (undefined) identifier in a request.
NoId == -2
\* An absent Date; instants are the naturals.
NoDate == -1
\* An absent or empty String (both fail a `required` validator).
NoText == <<>>

UserIds == 0..MaxUsers
TaskIds == 1..MaxTasks
Slots == 1..MaxReq

Statuses == {"pending", "in-progress", "completed", "cancelled"}
Priorities == {"low", "medium", "high", "urgent"}
Roles == {"admin", "employee"}

\* The value populate() leaves for a reference whose document is gone.
NullDoc == [isNull |-> TRUE]
NoRes == [op |-> "none"]
Idle == [op |-> "idle", pc |-> "idle", caller |-> NoId, email |-> "", id |-> NoId, count |-> 0]

\* Mongoose casts a request string to ObjectId; a malformed one throws CastError.
CastOk(id) == id >= 0

(* ------------------------- Employee.js pre-save ------------------------ *)
RECURSIVE Digits(_)
\* String(n): the decimal digits of n, most significant first.
Digits(n) == IF n < 10 THEN <<n>> ELSE Digits(n \div 10) \o <<n % 10>>

RECURSIVE PadStart(_, _, _)
\* s.padStart(len, ch): ch is prepended until the length is reached.
PadStart(s, len, ch) == IF Len(s) >= len THEN s ELSE PadStart(<<ch>> \o s, len, ch)

IdWidth == 4

\* `EMP${String(count + 1).padStart(4, '0')}`; the constant prefix EMP is left
\* out and the identifier is kept as its sequence of digits.
GenEmployeeId(count) == PadStart(Digits(count + 1), IdWidth, 0)

\* countDocuments() on the Employee collection.
CountEmployees == Cardinality(employees)

\* The unique index on Employee.employeeId: an insert of a duplicate fails.
EmployeeIdTaken(eid) == \E e \in employees : e.employeeId = eid

\* User.findOne({ email }) finds a document.
EmailTaken(email) == \E u \in DOMAIN users : users[u].email = email

\* The unique index on User.email rejects the insert.
EmailIndexRejects(email) == \E u \in DOMAIN users : users[u].email = email

(* ------------------------------ callers -------------------------------- *)
\* req.user as the authentication middleware resolves it: an existing User.
IsCaller(c) == c \in DOMAIN users
Role(c) == users[c].role
IsAdmin(c) == IsCaller(c) /\ Role(c) = "admin"

\* A new request is served in the first free slot (slots are only names for
\* the handler invocations in flight).
FreeSlot(s) == reqs[s].op = "idle" /\ \A s2 \in Slots : s2 < s => reqs[s2].op # "idle"

\* One exchange: the request (its parameters and body) and the JSON answer
\* (HTTP status and data payload, or the error kind behind a failure).
Reply(op, caller, status, req, data) ==
    [op |-> op, caller |-> caller, status |-> status, req |-> req, data |-> data]

(* ------------------------------- Init ---------------------------------- *)
Init ==
    /\ users = [u \in {AdminId} |-> [role |-> "admin", email |-> "admin"]]
    /\ employees = {}
    /\ tasks = <<>>
    /\ nextUserId = 1
    /\ nextTaskId = 1
    /\ idLog = <<>>
    /\ reqs = [s \in Slots |-> Idle]
    /\ res = NoRes

(* --------------------------- createEmployee ---------------------------- *)
\* POST /employees (admin): destructure the body and look the email up.
CreateEmployeeStart(s, c, email, role) ==
    /\ FreeSlot(s)
    /\ IsAdmin(c)
    /\ IF EmailTaken(email)
       THEN /\ res' = Reply("createEmployee", c, 400, email, NoId)
            /\ UNCHANGED reqs
       ELSE /\ reqs' = [reqs EXCEPT ![s] = [Idle EXCEPT !.op = "createEmployee",
                                   !.pc = "createUser", !.caller = c, !.email = email]]
            /\ res' = NoRes
    /\ UNCHANGED <<users, employees, tasks, nextUserId, nextTaskId, idLog>>

\* User.create({..., role: 'employee'}); the unique email index may reject it.
CreateEmployeeUser(s) ==
    /\ reqs[s].op = "createEmployee" /\ reqs[s].pc = "createUser"
    /\ IF EmailIndexRejects(reqs[s].email)
       THEN /\ res' = Reply("createEmployee", reqs[s].caller, 500, reqs[s].email, NoId)
            /\ reqs' = [reqs EXCEPT ![s] = Idle]
            /\ UNCHANGED <<users, nextUserId>>
       ELSE /\ nextUserId <= MaxUsers
            /\ users' = [u \in DOMAIN users \cup {nextUserId} |->
                           IF u = nextUserId
                           THEN [role |-> "employee", email |-> reqs[s].email]
                           ELSE users[u]]
            /\ nextUserId' = nextUserId + 1
            /\ reqs' = [reqs EXCEPT ![s].pc = "count", ![s].id = nextUserId]
            /\ res' = NoRes
    /\ UNCHANGED <<employees, tasks, nextTaskId, idLog>>

\* Employee.create -> pre('save'): countDocuments() is read.
CreateEmployeeCount(s) ==
    /\ reqs[s].op = "createEmployee" /\ reqs[s].pc = "count"
    /\ reqs' = [reqs EXCEPT ![s].pc = "insert", ![s].count = CountEmployees]
    /\ res' = NoRes
    /\ UNCHANGED <<users, employees, tasks, nextUserId, nextTaskId, idLog>>

\* Employee.create: the document is inserted with the generated employeeId; a
\* duplicate employeeId is rejected by the unique index and the handler answers 500.
CreateEmployeeInsert(s) ==
    /\ reqs[s].op = "createEmployee" /\ reqs[s].pc = "insert"
    /\ LET eid == GenEmployeeId(reqs[s].count) IN
       IF EmployeeIdTaken(eid)
       THEN /\ res' = Reply("createEmployee", reqs[s].caller, 500, reqs[s].email, reqs[s].id)
            /\ UNCHANGED <<employees, idLog>>
       ELSE /\ employees' = employees \cup
                  {[user |-> reqs[s].id, employeeId |-> eid, tasksCompleted |-> 0]}
            /\ idLog' = Append(idLog, eid)
            /\ res' = Reply("createEmployee", reqs[s].caller, 201, reqs[s].email, reqs[s].id)
    /\ reqs' = [reqs EXCEPT ![s] = Idle]
    /\ UNCHANGED <<users, tasks, nextUserId, nextTaskId>>

(* --------------------------- deleteEmployee ---------------------------- *)
\* DELETE /employees/:id (admin): User.findById.
DeleteEmployeeStart(s, c, id) ==
    /\ FreeSlot(s)
    /\ IsAdmin(c)
    /\ IF ~CastOk(id)
       THEN /\ res' = Reply("deleteEmployee", c, 500, id, "CastError")
            /\ UNCHANGED reqs
       ELSE IF id \notin DOMAIN users
       THEN /\ res' = Reply("deleteEmployee", c, 404, id, "Employee not found")
            /\ UNCHANGED reqs
       ELSE /\ reqs' = [reqs EXCEPT ![s] = [Idle EXCEPT !.op = "deleteEmployee",
                                   !.pc = "delEmployee", !.caller = c, !.id = id]]
            /\ res' = NoRes
    /\ UNCHANGED <<users, employees, tasks, nextUserId, nextTaskId, idLog>>

\* Employee.findOneAndDelete({ user: id }).
DeleteEmployeeProfile(s) ==
    /\ reqs[s].op = "deleteEmployee" /\ reqs[s].pc = "delEmployee"
    /\ employees' = {e \in employees : e.user # reqs[s].id}
    /\ reqs' = [reqs EXCEPT ![s].pc = "delUser"]
    /\ res' = NoRes
    /\ UNCHANGED <<users, tasks, nextUserId, nextTaskId, idLog>>

\* User.findByIdAndDelete(id).
DeleteEmployeeUser(s) ==
    /\ reqs[s].op = "deleteEmployee" /\ reqs[s].pc = "delUser"
    /\ users' = [u \in DOMAIN users \ {reqs[s].id} |-> users[u]]
    /\ reqs' = [reqs EXCEPT ![s].pc = "cancel"]
    /\ res' = NoRes
    /\ UNCHANGED <<employees, tasks, nextUserId, nextTaskId, idLog>>

\* Variant: a cascade that spares the tasks that are completed.
CancelStatusKeepCompleted(t) == IF t.status = "completed" THEN t.status ELSE "cancelled"
\* The update document of Task.updateMany: { status: 'cancelled' }.
CancelStatus(t) == "cancelled"

\* Task.updateMany({ assignedTo: id }, { status: 'cancelled' }), then 200.
DeleteEmployeeCancel(s) ==
    /\ reqs[s].op = "deleteEmployee" /\ reqs[s].pc = "cancel"
    /\ tasks' = [t \in DOMAIN tasks |->
                   IF tasks[t].assignedTo = reqs[s].id
                   THEN [tasks[t] EXCEPT !.status = CancelStatus(tasks[t])]
                   ELSE tasks[t]]
    /\ res' = Reply("deleteEmployee", reqs[s].caller, 200, reqs[s].id, "deleted")
    /\ reqs' = [reqs EXCEPT ![s] = Idle]
    /\ UNCHANGED <<users, employees, nextUserId, nextTaskId, idLog>>

(* ------------------------------ Task.js -------------------------------- *)
\* required: title, description, deadline, assignedTo; enum: priority.
\* An undefined priority takes the schema default.
DefaultPriority(p) == IF p = "" THEN "medium" ELSE p

ValidNewTask(d) ==
    /\ d.title # NoText
    /\ d.description # NoText
    /\ d.deadline # NoDate
    /\ CastOk(d.assignedTo)
    /\ d.priority \in Priorities

\* taskSchema.pre('save'): only document saves (create, task.save()) run it;
\* findByIdAndUpdate and updateMany do not.
PreSave(doc, statusModified, now) ==
    IF statusModified /\ doc.status = "completed" /\ doc.completedDate = NoDate
    THEN [doc EXCEPT !.completedDate = now]
    ELSE doc

\* populate(path): the referenced User, or null when it no longer exists.
PopUser(id) ==
    IF id \in DOMAIN users THEN [_id |-> id, email |-> users[id].email] ELSE NullDoc

Populate(t) == [t EXCEPT !.assignedTo = PopUser(t.assignedTo),
                         !.assignedBy = PopUser(t.assignedBy)]

(* ----------------------------- createTask ------------------------------ *)
\* !assignedUser || assignedUser.role !== 'employee' is the rejection.
AssigneeOk(u) == u # NullDoc /\ u.role = "employee"

FindUser(id) == IF id \in DOMAIN users THEN users[id] ELSE NullDoc

(* emailService.js: sendTaskNotification *)
\* What the mail environment does: no credentials configured, the transporter
\* cannot be created, sendMail rejects, sendMail never settles, sendMail delivers.
MailEnvs == {"unconfigured", "throws", "rejects", "hangs", "delivers"}

\* The promise sendTaskNotification returns: it returns early without
\* credentials, rethrows whatever createTransporter or sendMail throws, and
\* awaits sendMail.
SendTaskNotification(env) ==
    CASE env = "unconfigured" -> "fulfilled"
      [] env = "delivers" -> "fulfilled"
      [] env = "hangs" -> "pending"
      [] OTHER -> "rejected"

\* Variant: the handler awaits the promise inside its try block.
Awaited(promise) == promise

\* sendTaskNotification(...).catch(log) is not awaited: the handler goes on
\* whatever the promise does.
Detached(promise) == "detached"

\* POST /tasks (admin).  body: title, description, assignedTo, priority,
\* deadline, tags.  env is the mail environment of the notification.
CreateTaskMail(c, body, now, env) ==
    /\ IsAdmin(c)
    /\ IF ~CastOk(body.assignedTo) /\ body.assignedTo # NoId
       THEN /\ res' = Reply("createTask", c, 500, body, "CastError")
            /\ UNCHANGED <<tasks, nextTaskId>>
       ELSE IF ~AssigneeOk(FindUser(body.assignedTo))
       THEN /\ res' = Reply("createTask", c, 400, body, "Invalid employee ID")
            /\ UNCHANGED <<tasks, nextTaskId>>
       ELSE LET doc == [id |-> nextTaskId,
                        title |-> body.title,
                        description |-> body.description,
                        assignedTo |-> body.assignedTo,
                        assignedBy |-> c,
                        priority |-> DefaultPriority(body.priority),
                        status |-> "pending",
                        deadline |-> body.deadline,
                        completedDate |-> NoDate,
                        comments |-> <<>>,
                        tags |-> body.tags]
            IN IF ~ValidNewTask(doc)
               THEN /\ res' = Reply("createTask", c, 500, body, "ValidationError")
                    /\ UNCHANGED <<tasks, nextTaskId>>
               ELSE /\ nextTaskId <= MaxTasks
                    /\ tasks' = [t \in DOMAIN tasks \cup {nextTaskId} |->
                                   IF t = nextTaskId THEN PreSave(doc, FALSE, now)
                                   ELSE tasks[t]]
                    /\ nextTaskId' = nextTaskId + 1
                    /\ LET promise == SendTaskNotification(env)
                           seen == Detached(promise)
                       IN res' = IF seen = "rejected"
                                 THEN Reply("createTask", c, 500, body, "Error")
                                 ELSE IF seen = "pending" THEN NoRes
                                 ELSE [op |-> "createTask", caller |-> c, status |-> 201,
                                       req |-> body, data |-> Populate(tasks'[nextTaskId]),
                                       notice |-> promise]
    /\ UNCHANGED <<users, employees, nextUserId, idLog, reqs>>

\* POST /tasks where EMAIL_USER and EMAIL_PASSWORD are not set.
CreateTask(c, body, now) == CreateTaskMail(c, body, now, "unconfigured")

(* ----------------------------- updateTask ------------------------------ *)
Has(body, f) == f \in DOMAIN body
Pick(body, doc, f) == IF Has(body, f) THEN body[f] ELSE doc[f]

\* $set of the update document on the stored task.
ApplyUpdate(doc, upd) ==
    [id |-> doc.id,
     title |-> Pick(upd, doc, "title"),
     description |-> Pick(upd, doc, "description"),
     assignedTo |-> Pick(upd, doc, "assignedTo"),
     assignedBy |-> Pick(upd, doc, "assignedBy"),
     priority |-> Pick(upd, doc, "priority"),
     status |-> Pick(upd, doc, "status"),
     deadline |-> Pick(upd, doc, "deadline"),
     completedDate |-> Pick(upd, doc, "completedDate"),
     comments |-> Pick(upd, doc, "comments"),
     tags |-> Pick(upd, doc, "tags")]

\* runValidators: true - casts and validators of the paths being set.
ValidUpdate(upd) ==
    /\ Has(upd, "title") => upd.title # NoText
    /\ Has(upd, "description") => upd.description # NoText
    /\ Has(upd, "assignedTo") => CastOk(upd.assignedTo)
    /\ Has(upd, "assignedBy") => CastOk(upd.assignedBy)
    /\ Has(upd, "priority") => upd.priority \in Priorities
    /\ Has(upd, "status") => upd.status \in Statuses
    /\ Has(upd, "deadline") => upd.deadline # NoDate

\* Variant: the whole request body as the update document.
EmployeeUpdateWholeBody(body) == body
\* const { status } = req.body; the update document is { status }, and an
\* undefined status sets nothing.
EmployeeUpdate(body) == IF Has(body, "status") THEN [status |-> body.status] ELSE <<>>

\* if (status === 'completed') $inc tasksCompleted.
IncCompleted(body, before) == Has(body, "status") /\ body.status = "completed"

\* task.assignedTo.toString() !== req.user.id is the 403.
IsOwner(t, c) == t.assignedTo = c

\* PUT /tasks/:id.
UpdateTask(c, id, body) ==
    /\ IsCaller(c)
    /\ IF ~CastOk(id)
       THEN /\ res' = Reply("updateTask", c, 500, [id |-> id, body |-> body], "CastError")
            /\ UNCHANGED <<tasks, employees>>
       ELSE IF id \notin DOMAIN tasks
       THEN /\ res' = Reply("updateTask", c, 404, [id |-> id, body |-> body], "Task not found")
            /\ UNCHANGED <<tasks, employees>>
       ELSE IF Role(c) = "employee"
       THEN IF ~IsOwner(tasks[id], c)
            THEN /\ res' = Reply("updateTask", c, 403, [id |-> id, body |-> body], "Not authorized")
                 /\ UNCHANGED <<tasks, employees>>
            ELSE LET upd == EmployeeUpdate(body) IN
                 IF ~ValidUpdate(upd)
                 THEN /\ res' = Reply("updateTask", c, 500, [id |-> id, body |-> body], "ValidationError")
                      /\ UNCHANGED <<tasks, employees>>
                 ELSE /\ tasks' = [tasks EXCEPT ![id] = ApplyUpdate(tasks[id], upd)]
                      /\ IF IncCompleted(body, tasks[id])
                         THEN /\ \A e \in employees :
                                   e.user = c => e.tasksCompleted < MaxCompleted
                              /\ employees' =
                                   {IF e.user = c
                                    THEN [e EXCEPT !.tasksCompleted = @ + 1]
                                    ELSE e : e \in employees}
                         ELSE UNCHANGED employees
                      /\ res' = Reply("updateTask", c, 200, [id |-> id, body |-> body], Populate(tasks'[id]))
       ELSE IF ~ValidUpdate(body)
            THEN /\ res' = Reply("updateTask", c, 500, [id |-> id, body |-> body], "ValidationError")
                 /\ UNCHANGED <<tasks, employees>>
            ELSE /\ tasks' = [tasks EXCEPT ![id] = ApplyUpdate(tasks[id], body)]
                 /\ res' = Reply("updateTask", c, 200, [id |-> id, body |-> body], Populate(tasks'[id]))
                 /\ UNCHANGED employees
    /\ UNCHANGED <<users, nextUserId, nextTaskId, idLog, reqs>>

(* ----------------------------- deleteTask ------------------------------ *)
\* DELETE /tasks/:id (admin).
DeleteTask(c, id) ==
    /\ IsAdmin(c)
    /\ IF ~CastOk(id)
       THEN /\ res' = Reply("deleteTask", c, 500, id, "CastError")
            /\ UNCHANGED tasks
       ELSE IF id \notin DOMAIN tasks
       THEN /\ res' = Reply("deleteTask", c, 404, id, "Task not found")
            /\ UNCHANGED tasks
       ELSE /\ tasks' = [t \in DOMAIN tasks \ {id} |-> tasks[t]]
            /\ res' = Reply("deleteTask", c, 200, id, "deleted")
    /\ UNCHANGED <<users, employees, nextUserId, nextTaskId, idLog, reqs>>

(* ----------------------------- addComment ------------------------------ *)
\* POST /tasks/:id/comments: push { user, text }, task.save() (pre-save runs).
AddComment(c, id, text, now) ==
    /\ IsCaller(c)
    /\ IF ~CastOk(id)
       THEN /\ res' = Reply("addComment", c, 500, [id |-> id, text |-> text], "CastError")
            /\ UNCHANGED tasks
       ELSE IF id \notin DOMAIN tasks
       THEN /\ res' = Reply("addComment", c, 404, [id |-> id, text |-> text], "Task not found")
            /\ UNCHANGED tasks
       ELSE /\ Len(tasks[id].comments) < MaxComments
            /\ tasks' = [tasks EXCEPT ![id] =
                 PreSave([@ EXCEPT !.comments =
                            Append(@, [user |-> c, text |-> text, createdAt |-> now])],
                         FALSE, now)]
            /\ res' = Reply("addComment", c, 200, [id |-> id, text |-> text], tasks'[id])
    /\ UNCHANGED <<users, employees, nextUserId, nextTaskId, idLog, reqs>>

(* ------------------------------- getTask ------------------------------- *)
\* task.assignedTo._id.toString() !== req.user.id on the populated task; a
\* null assignedTo (the User is gone) makes the property read throw.
ViewThrows(c, t) == Role(c) = "employee" /\ Populate(t).assignedTo = NullDoc

ViewForbidden(c, t) == Role(c) = "employee" /\ Populate(t).assignedTo._id # c

\* GET /tasks/:id.
GetTask(c, id) ==
    /\ IsCaller(c)
    /\ res' = IF ~CastOk(id) THEN Reply("getTask", c, 500, id, "CastError")
              ELSE IF id \notin DOMAIN tasks THEN Reply("getTask", c, 404, id, "Task not found")
              ELSE IF ViewThrows(c, tasks[id]) THEN Reply("getTask", c, 500, id, "TypeError")
              ELSE IF ViewForbidden(c, tasks[id]) THEN Reply("getTask", c, 403, id, "Not authorized")
              ELSE Reply("getTask", c, 200, id, Populate(tasks[id]))
    /\ UNCHANGED <<users, employees, tasks, nextUserId, nextTaskId, idLog, reqs>>

(* ------------------------------ queries -------------------------------- *)
\* Case folding of the 'i' regex option, over the letters used in the model.
Lower(ch) == CASE ch = "A" -> "a" [] ch = "B" -> "b" [] OTHER -> ch

\* { $regex: search, $options: 'i' }: the pattern matches anywhere in the
\* text; "." in the pattern matches any character.
RegexMatchAt(pat, text, i) ==
    \A k \in 1..Len(pat) : pat[k] = "." \/ Lower(pat[k]) = Lower(text[i + k - 1])

RegexI(pat, text) == \E i \in 1..(Len(text) - Len(pat) + 1) : RegexMatchAt(pat, text, i)

\* Variant: the assignedTo filter applied whatever the role.
ScopeHonoursFilter(c, q) ==
    IF q.assignedTo # NoId THEN q.assignedTo ELSE IF Role(c) = "employee" THEN c ELSE NoId
\* query.assignedTo as getAllTasks builds it: the caller for an employee; the
\* assignedTo filter only for an admin; NoId when the query has no such key.
ListScope(c, q) ==
    IF Role(c) = "admin" /\ q.assignedTo # NoId THEN q.assignedTo
    ELSE IF Role(c) = "employee" THEN c ELSE NoId

\* query.assignedTo as getTaskStats and getCalendarTasks build it.
RoleScope(c) == IF Role(c) = "employee" THEN c ELSE NoId

InScope(t, scope) == scope = NoId \/ t.assignedTo = scope

\* The documents Task.find(query) / countDocuments(query) select in getAllTasks.
ListMatch(t, c, q) ==
    /\ InScope(t, ListScope(c, q))
    /\ q.status # "" => t.status = q.status
    /\ q.priority # "" => t.priority = q.priority
    /\ q.search # NoText => RegexI(q.search, t.title) \/ RegexI(q.search, t.description)

RECURSIVE SortDesc(_)
\* sort({ createdAt: -1 }): newest first; documents are created in id order.
SortDesc(S) ==
    IF S = {} THEN <<>>
    ELSE LET m == CHOOSE x \in S : \A y \in S : y <= x IN <<m>> \o SortDesc(S \ {m})

Min(a, b) == IF a < b THEN a ELSE b

\* skip((page - 1) * limit).limit(parseInt(limit)).
PageOf(seq, page, limit) ==
    SubSeq(seq, (page - 1) * limit + 1, Min(page * limit, Len(seq)))

\* Math.ceil(total / limit).
Pages(total, limit) == (total + limit - 1) \div limit

\* GET /tasks.
GetAllTasks(c, q) ==
    /\ IsCaller(c)
    /\ res' = IF ~CastOk(ListScope(c, q)) /\ ListScope(c, q) # NoId
              THEN [op |-> "getAllTasks", caller |-> c, status |-> 500, req |-> q]
              ELSE LET hit == {t \in DOMAIN tasks : ListMatch(tasks[t], c, q)}
                       ids == PageOf(SortDesc(hit), q.page, q.limit)
                   IN [op |-> "getAllTasks", caller |-> c, status |-> 200, req |-> q,
                       data |-> [i \in 1..Len(ids) |-> Populate(tasks[ids[i]])],
                       count |-> Len(ids),
                       total |-> Cardinality(hit),
                       pages |-> Pages(Cardinality(hit), q.limit),
                       currentPage |-> q.page]
    /\ UNCHANGED <<users, employees, tasks, nextUserId, nextTaskId, idLog, reqs>>

\* countDocuments({ ...query, status }).
CountStatus(scope, st) ==
    Cardinality({t \in DOMAIN tasks : InScope(tasks[t], scope) /\ tasks[t].status = st})

\* Variant: the digits after the second decimal are dropped.
CompletionRateFloor(completed, total) ==
    IF total > 0 THEN (10000 * completed) \div total ELSE 0

\* ((completedTasks / totalTasks) * 100).toFixed(2), in hundredths of a percent.
CompletionRate(completed, total) ==
    IF total > 0 THEN (2 * 10000 * completed + total) \div (2 * total) ELSE 0

\* GET /tasks/stats/overview.  (The seven-day trend aggregation is left out.)
GetTaskStats(c, now) ==
    /\ IsCaller(c)
    /\ LET scope == RoleScope(c)
           total == Cardinality({t \in DOMAIN tasks : InScope(tasks[t], scope)})
           completed == CountStatus(scope, "completed")
       IN res' = Reply("getTaskStats", c, 200, now,
                  [totalTasks |-> total,
                   completedTasks |-> completed,
                   pendingTasks |-> CountStatus(scope, "pending"),
                   inProgressTasks |-> CountStatus(scope, "in-progress"),
                   overdueTasks |-> Cardinality({t \in DOMAIN tasks :
                        /\ InScope(tasks[t], scope)
                        /\ tasks[t].status # "completed"
                        /\ tasks[t].deadline < now}),
                   completionRate |-> CompletionRate(completed, total),
                   priorityStats |-> [p \in Priorities |->
                        Cardinality({t \in DOMAIN tasks :
                            InScope(tasks[t], scope) /\ tasks[t].priority = p})]])
    /\ UNCHANGED <<users, employees, tasks, nextUserId, nextTaskId, idLog, reqs>>

\* Instants per calendar day.
TicksPerDay == 2

\* new Date(string): a date-only string is midnight of that day, a date-time
\* string is its instant, anything else (or a missing parameter) is Invalid Date.
NewDate(str) ==
    CASE str.kind = "day" -> str.day * TicksPerDay
      [] str.kind = "instant" -> str.t
      [] OTHER -> NoDate

\* Variant: $lt in place of $lte.
RangeExclusiveEnd(d, from, to) == from <= d /\ d < to
\* deadline: { $gte: new Date(startDate), $lte: new Date(endDate) }.
InRange(d, from, to) == from <= d /\ d <= to

\* The projection select('title status priority deadline assignedTo').
Project(t) == [id |-> t.id, title |-> t.title, status |-> t.status,
               priority |-> t.priority, deadline |-> t.deadline,
               assignedTo |-> t.assignedTo]

\* GET /tasks/calendar/view.
GetCalendarTasks(c, startDate, endDate) ==
    /\ IsCaller(c)
    /\ res' = IF NewDate(startDate) = NoDate \/ NewDate(endDate) = NoDate
              THEN Reply("getCalendarTasks", c, 500,
                     [startDate |-> startDate, endDate |-> endDate], {})
              ELSE Reply("getCalendarTasks", c, 200,
                     [startDate |-> startDate, endDate |-> endDate],
                     {Project(Populate(tasks[t])) : t \in
                        {t \in DOMAIN tasks :
                            /\ InRange(tasks[t].deadline, NewDate(startDate), NewDate(endDate))
                            /\ InScope(tasks[t], RoleScope(c))}})
    /\ UNCHANGED <<users, employees, tasks, nextUserId, nextTaskId, idLog, reqs>>

(* ----------------------------- getEmployee ----------------------------- *)
\* Task.find({ assignedTo: user._id }).
TasksAssignedTo(id) == {t \in DOMAIN tasks : tasks[t].assignedTo = id}

\* Employee.findOne({ user }): the profile, or null.
FindProfile(id) ==
    IF \E e \in employees : e.user = id THEN CHOOSE e \in employees : e.user = id ELSE NullDoc

\* GET /employees/:id (any authenticated caller): the User, its Employee
\* profile and the tasks assigned to it, assignedBy populated, newest first.
GetEmployee(c, id) ==
    /\ IsCaller(c)
    /\ res' = IF ~CastOk(id) THEN Reply("getEmployee", c, 500, id, "CastError")
              ELSE IF id \notin DOMAIN users THEN Reply("getEmployee", c, 404, id, "Employee not found")
              ELSE LET ids == SortDesc(TasksAssignedTo(id))
                   IN Reply("getEmployee", c, 200, id,
                        [_id |-> id, email |-> users[id].email, role |-> users[id].role,
                         employeeDetails |-> FindProfile(id),
                         tasks |-> [i \in 1..Len(ids) |->
                                      [tasks[ids[i]] EXCEPT !.assignedBy = PopUser(@)]]])
    /\ UNCHANGED <<users, employees, tasks, nextUserId, nextTaskId, idLog, reqs>>

Emails == {"x", "y"}

NextEmp ==
    \/ \E s \in Slots, c \in UserIds, e \in Emails, r \in Roles : CreateEmployeeStart(s, c, e, r)
    \/ \E s \in Slots : CreateEmployeeUser(s)
    \/ \E s \in Slots : CreateEmployeeCount(s)
    \/ \E s \in Slots : CreateEmployeeInsert(s)
    \/ \E s \in Slots, c \in UserIds, id \in UserIds \cup {BadId} : DeleteEmployeeStart(s, c, id)
    \/ \E s \in Slots : DeleteEmployeeProfile(s)
    \/ \E s \in Slots : DeleteEmployeeUser(s)
    \/ \E s \in Slots : DeleteEmployeeCancel(s)

SpecEmp == Init /\ [][NextEmp]_vars

(* ------------- task requests, one employee request at a time ----------- *)
\* Request bodies of POST /tasks.
NewTask(assignedTo, title, priority, deadline) ==
    [title |-> title, description |-> <<"b">>, assignedTo |-> assignedTo,
     priority |-> priority, deadline |-> deadline, tags |-> {}]

PlainTasks == {NewTask(u, <<"a">>, "", 1) : u \in 1..MaxUsers}

TaskBodies ==
    {NewTask(u, <<"a">>, "", 1) : u \in UserIds \cup {BadId, NoId}}
        \cup {NewTask(1, NoText, "", 1), NewTask(1, <<"a">>, "bogus", 1),
              NewTask(1, <<"a">>, "high", NoDate)}

\* Request bodies of PUT /tasks/:id.
StatusBodies == {[status |-> st] : st \in Statuses \cup {"bogus"}}

WideBodies ==
    {[status |-> "completed", title |-> <<"z">>, description |-> <<"z">>,
      assignedTo |-> AdminId, assignedBy |-> 1, priority |-> "urgent", deadline |-> 0,
      completedDate |-> 0, comments |-> <<>>, tags |-> {"t"}],
     [title |-> <<"z">>, priority |-> "urgent"]}

UpdateBodies == StatusBodies \cup WideBodies

\* The steps of one createEmployee request and one deleteEmployee request at a
\* time, in slot 1.
EmployeeRequests ==
    \/ \E c \in UserIds, e \in Emails : CreateEmployeeStart(1, c, e, "employee")
    \/ CreateEmployeeUser(1)
    \/ CreateEmployeeCount(1)
    \/ CreateEmployeeInsert(1)
    \/ \E c \in UserIds, id \in 1..MaxUsers : DeleteEmployeeStart(1, c, id)
    \/ DeleteEmployeeProfile(1)
    \/ DeleteEmployeeUser(1)
    \/ DeleteEmployeeCancel(1)

\* Employee accounts are created and the first two deleted again while an admin
\* creates tasks for them and changes their status.
NextCancel ==
    \/ \E e \in Emails : CreateEmployeeStart(1, AdminId, e, "employee")
    \/ CreateEmployeeUser(1)
    \/ CreateEmployeeCount(1)
    \/ CreateEmployeeInsert(1)
    \/ \E id \in {1, 2} : DeleteEmployeeStart(1, AdminId, id)
    \/ DeleteEmployeeProfile(1)
    \/ DeleteEmployeeUser(1)
    \/ DeleteEmployeeCancel(1)
    \/ \E u \in {1, 2} : CreateTask(AdminId, NewTask(u, <<"a">>, "", 1), 0)
    \/ \E id \in TaskIds, st \in {"completed", "in-progress"} :
          UpdateTask(AdminId, id, [status |-> st])

SpecCancel == Init /\ [][NextCancel]_vars

\* Tasks are created and have their status changed by an admin;
\* employees send every kind of update body.
NextUpdate ==
    \/ \E c \in UserIds, e \in Emails : CreateEmployeeStart(1, c, e, "employee")
    \/ CreateEmployeeUser(1)
    \/ CreateEmployeeCount(1)
    \/ CreateEmployeeInsert(1)
    \/ \E c \in UserIds, b \in PlainTasks : CreateTask(c, b, 0)
    \/ \E id \in TaskIds, b \in StatusBodies : UpdateTask(AdminId, id, b)
    \/ \E c \in 1..MaxUsers, id \in TaskIds \cup {BadId}, b \in UpdateBodies : UpdateTask(c, id, b)

SpecUpdate == Init /\ [][NextUpdate]_vars

\* Two employees with tasks, both sending update
\* bodies: one naming every field, one naming a status only, one naming none.
FrameBodies ==
    {b \in WideBodies : Has(b, "assignedTo")} \cup {[status |-> "in-progress"], [title |-> <<"z">>]}

NextFrame ==
    \/ \E e \in Emails : CreateEmployeeStart(1, AdminId, e, "employee")
    \/ CreateEmployeeUser(1)
    \/ CreateEmployeeCount(1)
    \/ CreateEmployeeInsert(1)
    \/ \E u \in {1, 2} : CreateTask(AdminId, NewTask(u, <<"a">>, "", 1), 0)
    \/ \E c \in {1, 2}, id \in TaskIds, b \in FrameBodies : UpdateTask(c, id, b)

SpecFrame == Init /\ [][NextFrame]_vars

\* Tasks are created from every kind of body, read and deleted while employees
\* come and go.
NextGet ==
    \/ EmployeeRequests
    \/ \E c \in UserIds, b \in TaskBodies : CreateTask(c, b, 0)
    \/ \E c \in UserIds, id \in TaskIds \cup {BadId} : DeleteTask(c, id)
    \/ \E c \in UserIds, id \in TaskIds : GetTask(c, id)

SpecGet == Init /\ [][NextGet]_vars

(* ------------------------------ read side ------------------------------ *)
\* Tasks that differ in assignee, title, priority and deadline.
QueryTasks ==
    {NewTask(u, <<"a", "B">>, "", 1) : u \in {1, 2}}
        \cup {NewTask(u, <<"c">>, "high", 2) : u \in {1, 2}}

\* req.query of GET /tasks; page and limit default to 1 and 10.
ListQuery(status, priority, assignedTo, search, page, limit) ==
    [status |-> status, priority |-> priority, assignedTo |-> assignedTo,
     search |-> search, page |-> page, limit |-> limit]

ListQueries ==
    {ListQuery("", "", a, NoText, 1, 10) : a \in {NoId, 1, 2, BadId}}
      \cup {ListQuery("completed", "high", a, <<"C">>, 1, 10) : a \in {NoId, 2}}
      \cup {ListQuery("", "", 1, <<".", "b">>, 2, 1)}

\* startDate / endDate strings of GET /tasks/calendar/view.
Day(n) == [kind |-> "day", day |-> n]
Instant(t) == [kind |-> "instant", t |-> t]
Unparsable == [kind |-> "invalid"]

StartDates == {Day(0), Instant(2), Unparsable}
EndDates == {Day(1), Instant(1), Unparsable}

\* The administrator and the two employee accounts that can exist.
Callers == {AdminId, 1, 2}

TwoEmployees ==
    \/ \E e \in Emails : CreateEmployeeStart(1, AdminId, e, "employee")
    \/ CreateEmployeeUser(1)
    \/ CreateEmployeeCount(1)
    \/ CreateEmployeeInsert(1)

\* Tasks of two employees are created and completed, and listed, counted and
\* shown on the calendar for every caller.
NextList ==
    \/ TwoEmployees
    \/ \E b \in QueryTasks : CreateTask(AdminId, b, 0)
    \/ \E id \in TaskIds : UpdateTask(AdminId, id, [status |-> "completed"])
    \/ \E c \in Callers, q \in ListQueries : GetAllTasks(c, q)
    \/ \E c \in Callers : GetTaskStats(c, 2)
    \/ \E c \in Callers : GetCalendarTasks(c, Day(0), Day(1))

SpecList == Init /\ [][NextList]_vars

\* Tasks of two employees with deadlines 1 and 2 are created and shown on the
\* calendar for every caller and every range.
NextCalendar ==
    \/ TwoEmployees
    \/ \E b \in QueryTasks : CreateTask(AdminId, b, 0)
    \/ \E c \in Callers, sd \in StartDates, ed \in EndDates : GetCalendarTasks(c, sd, ed)

SpecCalendar == Init /\ [][NextCalendar]_vars

\* Tasks are created for two employees under every mail environment, with
\* valid and invalid bodies, and deleted again.
NotifyBodies ==
    {NewTask(u, <<"a">>, "", 1) : u \in {1, 2, BadId}} \cup {NewTask(1, NoText, "", 1)}

NextNotify ==
    \/ TwoEmployees
    \/ \E b \in NotifyBodies, env \in MailEnvs : CreateTaskMail(AdminId, b, 0, env)
    \/ \E id \in TaskIds : DeleteTask(AdminId, id)

SpecNotify == Init /\ [][NextNotify]_vars

\* Tasks of the first employee are created, completed and deleted; both
\* employees comment on the first task, on a missing one and on a malformed id.
CommentTexts == {<<"a">>, <<"b">>}

NextComment ==
    \/ TwoEmployees
    \/ CreateTask(AdminId, NewTask(1, <<"a">>, "", 1), 0)
    \/ UpdateTask(AdminId, 1, [status |-> "completed"])
    \/ DeleteTask(AdminId, 1)
    \/ \E c \in {1, 2}, id \in {1, BadId}, text \in CommentTexts : AddComment(c, id, text, 1)

SpecComment == Init /\ [][NextComment]_vars

\* Two employees with tasks use every endpoint an employee can reach.
AccessQueries == {ListQuery("", "", a, NoText, 1, 10) : a \in {NoId, 1, 2}}

NextAccess ==
    \/ TwoEmployees
    \/ \E u \in {1, 2} : CreateTask(AdminId, NewTask(u, <<"a">>, "", 1), 0)
    \/ \E c \in {1, 2}, q \in AccessQueries : GetAllTasks(c, q)
    \/ \E c \in {1, 2}, id \in TaskIds : GetTask(c, id)
    \/ \E c \in {1, 2}, id \in TaskIds : UpdateTask(c, id, [status |-> "in-progress"])
    \/ \E id \in TaskIds : AddComment(2, id, <<"a">>, 1)
    \/ \E c \in {1, 2} : GetTaskStats(c, 2)
    \/ \E c \in {1, 2} : GetCalendarTasks(c, Day(0), Day(1))
    \/ \E c \in {1, 2}, id \in {AdminId, 1, 2} : GetEmployee(c, id)

SpecAccess == Init /\ [][NextAccess]_vars

\* A collection of n pending tasks, the first j of them assigned to the first
\* employee and the others to the second, as createTask stores them.
StoredTask(t, u) ==
    [id |-> t, title |-> <<"a">>, description |-> <<"b">>, assignedTo |-> u,
     assignedBy |-> AdminId, priority |-> DefaultPriority(""), status |-> "pending",
     deadline |-> 1, completedDate |-> NoDate, comments |-> <<>>, tags |-> {}]

InitStats ==
    /\ users = [u \in {AdminId, 1, 2} |->
                  IF u = AdminId THEN [role |-> "admin", email |-> "admin"]
                  ELSE [role |-> "employee", email |-> IF u = 1 THEN "x" ELSE "y"]]
    /\ employees = {[user |-> u, employeeId |-> GenEmployeeId(u - 1), tasksCompleted |-> 0] :
                        u \in {1, 2}}
    /\ \E n \in 0..MaxStatTasks, j \in 0..MaxStatTasks :
          /\ j <= n
          /\ tasks = [t \in 1..n |-> StoredTask(t, IF t <= j THEN 1 ELSE 2)]
          /\ nextTaskId = n + 1
    /\ nextUserId = 3
    /\ idLog = <<GenEmployeeId(0), GenEmployeeId(1)>>
    /\ reqs = [s \in Slots |-> Idle]
    /\ res = NoRes

\* An admin completes stored tasks; every caller asks for the statistics.
NextStats ==
    \/ \E id \in 1..MaxStatTasks : UpdateTask(AdminId, id, [status |-> "completed"])
    \/ \E c \in Callers : GetTaskStats(c, 2)

SpecStats == InitStats /\ [][NextStats]_vars

(* ======================= properties of the handlers ==================== *)
\* The tasks assigned to user u.
TasksOf(u) == {t \in DOMAIN tasks : tasks[t].assignedTo = u}

EmployeeAnswer(op) ==
    res.op = op /\ res.status = 200 /\ res.caller \in DOMAIN users
        /\ users[res.caller].role = "employee"

\* C1: whatever the query parameters, every task that task List returns to an
\* employee caller, every task task Statistics counts for an employee caller and
\* every task Calendar view returns to an employee caller is assigned to that
\* caller; an assignedTo filter naming another user is ignored.
C1_EmployeeSeesOnlyOwnTasks ==
    /\ EmployeeAnswer("getAllTasks") =>
          /\ \A i \in DOMAIN res.data :
                res.data[i].assignedTo # NullDoc /\ res.data[i].assignedTo._id = res.caller
          /\ res.total <= Cardinality(TasksOf(res.caller))
    /\ EmployeeAnswer("getTaskStats") =>
          /\ res.data.totalTasks = Cardinality(TasksOf(res.caller))
          /\ \A st \in {"completed", "pending", "in-progress"} :
                LET n == CASE st = "completed" -> res.data.completedTasks
                           [] st = "pending" -> res.data.pendingTasks
                           [] OTHER -> res.data.inProgressTasks
                IN n = Cardinality({t \in TasksOf(res.caller) : tasks[t].status = st})
          /\ res.data.overdueTasks <= Cardinality(TasksOf(res.caller))
          /\ \A p \in Priorities :
                res.data.priorityStats[p] =
                    Cardinality({t \in TasksOf(res.caller) : tasks[t].priority = p})
    /\ EmployeeAnswer("getCalendarTasks") =>
          \A x \in res.data : x.assignedTo # NullDoc /\ x.assignedTo._id = res.caller

\* An employee lists tasks with an assignedTo filter naming another user who has
\* tasks, and is answered with tasks of their own.
C1_Witness ==
    /\ EmployeeAnswer("getAllTasks")
    /\ res.req.assignedTo \in DOMAIN users
    /\ res.req.assignedTo # res.caller
    /\ TasksOf(res.req.assignedTo) # {}
    /\ Len(res.data) > 0

\* C10: Calendar view with a startDate and an endDate that are dates answers with
\* exactly the tasks in the caller's visible scope (all tasks for an admin, the
\* caller's own for an employee) whose deadline d has startDate <= d <= endDate.
C10_CalendarInclusiveRange ==
    (res.op = "getCalendarTasks"
        /\ res.req.startDate.kind # "invalid" /\ res.req.endDate.kind # "invalid") =>
       /\ res.status = 200
       /\ {x.id : x \in res.data} =
            {t \in DOMAIN tasks :
                /\ users[res.caller].role = "employee" => tasks[t].assignedTo = res.caller
                /\ NewDate(res.req.startDate) <= tasks[t].deadline
                /\ tasks[t].deadline <= NewDate(res.req.endDate)}
       /\ \A x \in res.data : x.deadline = tasks[x.id].deadline

\* A calendar answer that holds a task whose deadline is the end of the range
\* and leaves out a visible task whose deadline is outside the range.
C10_Witness ==
    /\ res.op = "getCalendarTasks" /\ res.status = 200
    /\ \E x \in res.data : x.deadline = NewDate(res.req.endDate)
    /\ \E t \in DOMAIN tasks :
          /\ users[res.caller].role = "employee" => tasks[t].assignedTo = res.caller
          /\ tasks[t].deadline > NewDate(res.req.endDate)

(* ------------------------------ updates -------------------------------- *)
\* C2: the first Update that takes a task's status to completed sets its
\* completedDate, and a later change of status neither changes nor clears a
\* completedDate that is set.
C2_CompletedDateSetOnce ==
    [][\A t \in DOMAIN tasks \cap DOMAIN tasks' :
          /\ (res'.op = "updateTask"
                /\ tasks[t].status # "completed" /\ tasks'[t].status = "completed"
                /\ tasks[t].completedDate = NoDate)
                => tasks'[t].completedDate # NoDate
          /\ (tasks[t].completedDate # NoDate /\ tasks'[t].status # tasks[t].status)
                => tasks'[t].completedDate = tasks[t].completedDate]_vars

\* The number of documents of the collection tk that are assigned to u and
\* whose status is in sts.
CountOf(tk, u, sts) ==
    Cardinality({t \in DOMAIN tk : tk[t].assignedTo = u /\ tk[t].status \in sts})

\* The last step of a deleteEmployee request in slot s: the cascade and the answer.
DeleteFinishes(s) ==
    reqs[s].op = "deleteEmployee" /\ reqs[s].pc = "cancel" /\ reqs'[s].op = "idle"

\* C3 as stated: a successful Delete employee for U deletes none of U's tasks,
\* leaves the number of U's completed tasks unchanged, and raises the number of
\* U's cancelled tasks by the number of U's tasks that were not cancelled.
C3_CompletedCountUnchanged ==
    [][\A s \in Slots : DeleteFinishes(s) =>
          LET u == reqs[s].id IN
          /\ DOMAIN tasks' = DOMAIN tasks
          /\ CountOf(tasks', u, Statuses) = CountOf(tasks, u, Statuses)
          /\ CountOf(tasks', u, {"completed"}) = CountOf(tasks, u, {"completed"})
          /\ CountOf(tasks', u, {"cancelled"}) =
                CountOf(tasks, u, {"cancelled"}) + CountOf(tasks, u, Statuses \ {"cancelled"})]_vars

\* C3 as amended: a successful Delete employee for U deletes none of U's tasks,
\* leaves every one of them cancelled (so the number of U's completed tasks
\* becomes 0), raises the number of U's cancelled tasks by the number that were
\* not cancelled, and changes no task of another user.
C3_DeleteCancelsEveryTask ==
    [][\A s \in Slots : DeleteFinishes(s) =>
          LET u == reqs[s].id IN
          /\ DOMAIN tasks' = DOMAIN tasks
          /\ CountOf(tasks', u, Statuses) = CountOf(tasks, u, Statuses)
          /\ CountOf(tasks', u, {"completed"}) = 0
          /\ CountOf(tasks', u, {"cancelled"}) =
                CountOf(tasks, u, {"cancelled"}) + CountOf(tasks, u, Statuses \ {"cancelled"})
          /\ \A t \in DOMAIN tasks :
                /\ tasks[t].assignedTo # u => tasks'[t] = tasks[t]
                /\ tasks'[t] = [tasks[t] EXCEPT !.status = tasks'[t].status]]_vars

\* Delete employee has answered 200 for a user with two tasks, which are still
\* stored and are both cancelled.
C3_Witness ==
    /\ res.op = "deleteEmployee" /\ res.status = 200
    /\ res.req \notin DOMAIN users
    /\ CountOf(tasks, res.req, Statuses) = 2
    /\ CountOf(tasks, res.req, {"cancelled"}) = 2

(* ----------------------------- employee ids ---------------------------- *)
\* String order (the order of the identifiers as text).
StrLess(a, b) ==
    \E i \in 1..Min(Len(a), Len(b)) + 1 :
        /\ \A k \in 1..(i - 1) : a[k] = b[k]
        /\ IF i <= Len(a) /\ i <= Len(b) THEN a[i] < b[i] ELSE i > Len(a) /\ i <= Len(b)

\* C4: over any sequence of Create employee and Delete employee requests the
\* employeeId values of the Employee records are pairwise distinct, every
\* assigned ID is greater than every ID assigned before it, and the ID of an
\* Employee never changes after its first save.
C4_IdsDistinctAndIncreasing ==
    [][/\ \A e1, e2 \in employees' : e1.employeeId = e2.employeeId => e1 = e2
       /\ \A i, j \in DOMAIN idLog' : i < j => StrLess(idLog'[i], idLog'[j])
       /\ \A e1 \in employees, e2 \in employees' :
             e1.user = e2.user => e1.employeeId = e2.employeeId]_vars

\* C9: Create employee with an email of an existing User is answered 400 and
\* creates nothing; with an unused email it creates one User of role employee
\* and one Employee profile that references it.
C9_CreateEmployeePairsRecords ==
    res.op = "createEmployee" =>
        \/ res.status = 400 /\ EmailTaken(res.req)
        \/ /\ res.status = 201
           /\ res.data \in DOMAIN users
           /\ users[res.data].role = "employee" /\ users[res.data].email = res.req
           /\ Cardinality({e \in employees : e.user = res.data}) = 1

(* ------------------------------ createTask ----------------------------- *)
\* The identifier names an existing User whose role is employee.
ResolvesToEmployee(id) == id \in DOMAIN users /\ users[id].role = "employee"

\* C5: Create task with an assignedTo that does not resolve to an existing User
\* of role employee is answered 400 and leaves the Task records unchanged; when
\* it resolves, exactly one task is persisted, with assignedBy the caller.
C5_CreateTaskValidatesAssignee ==
    [][res'.op = "createTask" =>
          IF ResolvesToEmployee(res'.req.assignedTo)
          THEN /\ res'.status = 201
               /\ \E t \in DOMAIN tasks' \ DOMAIN tasks :
                     /\ DOMAIN tasks' = DOMAIN tasks \cup {t}
                     /\ tasks'[t].assignedBy = res'.caller
                     /\ tasks'[t].assignedTo = res'.req.assignedTo
               /\ \A t \in DOMAIN tasks : tasks'[t] = tasks[t]
          ELSE res'.status = 400 /\ tasks' = tasks]_vars

(* ------------------------------ updateTask ----------------------------- *)
\* A step that is a task Update by an employee-role caller.
EmployeeUpdates ==
    res'.op = "updateTask" /\ res'.caller \in DOMAIN users
        /\ users[res'.caller].role = "employee"

\* C6: a task Update by an employee on a task that is not assigned to them is
\* answered 403 and changes no Task or Employee record; on a task assigned to
\* them it changes at most the status of that task, whatever the body holds.
C6_EmployeeChangesOnlyStatus ==
    [][(EmployeeUpdates /\ res'.req.id \in DOMAIN tasks) =>
          LET id == res'.req.id IN
          IF tasks[id].assignedTo # res'.caller
          THEN res'.status = 403 /\ tasks' = tasks /\ employees' = employees
          ELSE /\ DOMAIN tasks' = DOMAIN tasks
               /\ \A t \in DOMAIN tasks : t # id => tasks'[t] = tasks[t]
               /\ tasks'[id] = [tasks[id] EXCEPT !.status = tasks'[id].status]]_vars

\* An employee has sent a body that names every field for their own task: the
\* answer is 200, the status is the requested one, and the title, assignee and
\* completedDate differ from the ones the body asked for.
C6_Witness ==
    /\ res.op = "updateTask" /\ res.status = 200
    /\ res.caller \in DOMAIN users /\ users[res.caller].role = "employee"
    /\ {"status", "title", "assignedTo", "completedDate", "tags"} \subseteq DOMAIN res.req.body
    /\ tasks[res.req.id].status = res.req.body.status
    /\ tasks[res.req.id].title # res.req.body.title
    /\ tasks[res.req.id].assignedTo # res.req.body.assignedTo
    /\ tasks[res.req.id].completedDate # res.req.body.completedDate

\* tasksCompleted of the Employee profile of user u in the collection emps.
Counter(emps, u) == (CHOOSE e \in emps : e.user = u).tasksCompleted

\* C7: tasksCompleted of an employee rises by one with each Update of theirs
\* that takes one of their tasks from a status other than completed to
\* completed, is unchanged by every other step, and never decreases.
C7_CounterCountsTransitions ==
    [][\A e \in employees :
          (\E e2 \in employees' : e2.user = e.user) =>
             Counter(employees', e.user) = e.tasksCompleted +
                (IF /\ EmployeeUpdates /\ res'.caller = e.user
                    /\ \E t \in DOMAIN tasks \cap DOMAIN tasks' :
                          /\ tasks[t].assignedTo = e.user
                          /\ tasks[t].status # "completed"
                          /\ tasks'[t].status = "completed"
                 THEN 1 ELSE 0)]_vars

(* -------------------------------- getTask ------------------------------ *)
\* C8: Get one task answers 404 when no task has the identifier, 403 when the
\* caller is an employee who is not the task's assignee, and the task
\* otherwise; it never answers 500, also after the assignee was deleted.
C8_GetTaskNeverFails ==
    res.op = "getTask" =>
       IF res.req \notin DOMAIN tasks THEN res.status = 404
       ELSE IF users[res.caller].role = "employee" /\ tasks[res.req].assignedTo # res.caller
            THEN res.status = 403
            ELSE res.status = 200 /\ res.data.id = res.req

\* The tasks in the scope of caller c: all tasks for an admin, the caller's own
\* for an employee.
ScopeOf(c) ==
    {t \in DOMAIN tasks : users[c].role = "employee" => tasks[t].assignedTo = c}

Abs(n) == IF n < 0 THEN -n ELSE n

\* C11: task Statistics reports completionRate 0 when no task is in the
\* caller's scope, and otherwise the hundredth of a percent nearest to
\* completed / total * 100, where completed and total count the completed and
\* all tasks in the caller's scope; the rate lies between 0 and 100.
C11_CompletionRateRounded ==
    (res.op = "getTaskStats" /\ res.status = 200) =>
       LET total == Cardinality(ScopeOf(res.caller))
           completed == Cardinality({t \in ScopeOf(res.caller) : tasks[t].status = "completed"})
           rate == res.data.completionRate
       IN /\ res.data.totalTasks = total
          /\ res.data.completedTasks = completed
          /\ total = 0 => rate = 0
          /\ total > 0 => 2 * Abs(rate * total - 10000 * completed) <= total
          /\ 0 <= rate /\ rate <= 10000

\* An employee with 3 completed tasks of 7 is told 42.86.
C11_Witness ==
    /\ res.op = "getTaskStats" /\ res.status = 200
    /\ users[res.caller].role = "employee"
    /\ res.data.totalTasks = 7
    /\ res.data.completedTasks = 3
    /\ res.data.completionRate = 4286

\* C12: whatever the notification attempt does (skipped without credentials,
\* failing when the transporter is created or when the mail is sent, never
\* settling, or delivering), a create-task request that persists a task is
\* answered 201 with that task, and every other answer of create task leaves
\* the tasks as they were.
C12_NotificationIsolated ==
    [][ /\ (tasks' # tasks /\ nextTaskId' # nextTaskId) =>
              (/\ res'.op = "createTask" /\ res'.status = 201
               /\ nextTaskId \in DOMAIN tasks'
               /\ res'.data.id = nextTaskId
               /\ res'.data.title = tasks'[nextTaskId].title
               /\ res'.data.status = "pending")
        /\ (res'.op = "createTask" /\ res'.status # 201) => tasks' = tasks ]_vars

\* A task was created and answered 201 although its notification failed.
C12_Witness ==
    /\ res.op = "createTask" /\ res.status = 201
    /\ res.notice = "rejected"
    /\ res.data.id \in DOMAIN tasks

\* The fields of a task other than its comment list.
SameButComments(a, b) == [a EXCEPT !.comments = <<>>] = [b EXCEPT !.comments = <<>>]

\* C13: add comment on an existing task appends exactly one entry (the caller,
\* the supplied text, a timestamp) at the end of the task's comment list,
\* keeps the earlier comments in order and leaves the task's other fields and
\* every other record unchanged; on an identifier that names no task it
\* answers 404 and changes no record.
C13_AddCommentAppendsOne ==
    [][ res'.op = "addComment" =>
          /\ users' = users /\ employees' = employees
          /\ IF res'.req.id \in DOMAIN tasks
             THEN /\ res'.status = 200
                  /\ DOMAIN tasks' = DOMAIN tasks
                  /\ \A t \in DOMAIN tasks : t # res'.req.id => tasks'[t] = tasks[t]
                  /\ SameButComments(tasks'[res'.req.id], tasks[res'.req.id])
                  /\ Len(tasks'[res'.req.id].comments) = Len(tasks[res'.req.id].comments) + 1
                  /\ SubSeq(tasks'[res'.req.id].comments, 1, Len(tasks[res'.req.id].comments))
                        = tasks[res'.req.id].comments
                  /\ LET last == tasks'[res'.req.id].comments[Len(tasks'[res'.req.id].comments)]
                     IN last.user = res'.caller /\ last.text = res'.req.text
             ELSE res'.status = 404 /\ tasks' = tasks ]_vars

\* An answered task document with assignedTo populated is the caller's own.
OwnPopulated(doc) == doc.assignedTo # NullDoc /\ doc.assignedTo._id = res.caller

\* C14: no answer to an employee caller, from task List, Get one task, Update,
\* Add comment, Statistics, Calendar view or Get one employee, contains a task
\* assigned to another user than the caller.
C14_NoTaskOfAnotherUser ==
    /\ EmployeeAnswer("getAllTasks") => \A i \in DOMAIN res.data : OwnPopulated(res.data[i])
    /\ EmployeeAnswer("getTask") => OwnPopulated(res.data)
    /\ EmployeeAnswer("updateTask") => OwnPopulated(res.data)
    /\ EmployeeAnswer("addComment") => res.data.assignedTo = res.caller
    /\ EmployeeAnswer("getTaskStats") =>
          res.data.totalTasks = Cardinality(TasksOf(res.caller))
    /\ EmployeeAnswer("getCalendarTasks") => \A x \in res.data : OwnPopulated(x)
    /\ EmployeeAnswer("getEmployee") =>
          \A i \in DOMAIN res.data.tasks : res.data.tasks[i].assignedTo = res.caller

\* No createEmployee or deleteEmployee request is in flight.
Quiescent == \A s \in Slots : reqs[s].op = "idle"

\* C15: once every Create employee and Delete employee request has run to its
\* answer, every User of role employee has exactly one Employee profile that
\* references it, and every Employee profile references a User that exists.
C15_PairingOneToOne ==
    Quiescent =>
        /\ \A u \in DOMAIN users :
              users[u].role = "employee" => Cardinality({e \in employees : e.user = u}) = 1
        /\ \A e \in employees : e.user \in DOMAIN users

====
